---- MODULE Spec2Model ----
(***************************************************************************)
(* Model of stt_from_audio_or_video/transcribe.py: the per-run loop of     *)
(* process_files over the input directory, with the three working          *)
(* directories (to_transcribe, space_optimized_files, transcriptions) as   *)
(* state that persists from one run to the next.  Two further scripts of   *)
(* the repository follow it, each with its own specification:              *)
(* crowdsec_docker_dyndns_ip_whitelister/publicIpWhitelister.py            *)
(* (SpecWhitelister), image_optimization_for_websites/image_processor.py   *)
(* (SpecImage) and documents_to_markdown_converter (SpecConverter).        *)
(*                                                                         *)
(* Sizes are whole megabytes (get_file_size_mb is bytes / 2^20; only its   *)
(* comparisons with the provider limit and the target size matter).        *)
(* A path is a record [dir, stem, ext]; os.path.splitext(basename(p))      *)
(* is (p.stem, p.ext).  The environment (.env) is the same in every run,   *)
(* so the provider chosen at module load is the same in every run.         *)
(***************************************************************************)
EXTENDS Integers, Sequences, FiniteSets, TLC

\* ---------------------------------------------------------------- bounds
MaxRuns == 2
MaxFiles == 2

\* the files an input directory is drawn from: one of exactly the provider
\* limit with an upper-case extension, a 30 MB mp3 of the same stem, and one
\* of an extension that groq accepts and mistral does not
AllFiles ==
    {[stem |-> "a", ext |-> ".WAV", size |-> 25],
     [stem |-> "a", ext |-> ".mp3", size |-> 30],
     [stem |-> "b", ext |-> ".ogg", size |-> 25]}

\* sizes an encoder attempt can leave in the output file
OptSizes == {20, 21, 24}

\* ------------------------------------------------------ provider classes
Providers == {"groq", "mistral"}

get_max_file_size_mb(p) == 25

get_supported_formats(p) ==
    IF p = "groq"
    THEN {".flac", ".mp3", ".mp4", ".mpeg", ".mpga", ".m4a", ".ogg", ".wav", ".webm"}
    ELSE {".mp3", ".mp4", ".mpeg", ".mpga", ".m4a", ".wav", ".webm"}

target_extension(p) == ".mp3"

bitrate_ladder_ascending(p) ==
    IF p = "groq" THEN <<8, 16, 32, 64>> ELSE <<32, 48, 64, 96>>

bitrate_ladder(p) ==
    IF p = "groq" THEN <<64, 32, 16, 8>> ELSE <<96, 64, 48, 32>>

\* str.lower() on the strings that occur
Lower(e) ==
    CASE e = ".WAV" -> ".wav"
      [] e = "Mistral" -> "mistral"
      [] e = ".MP3" -> ".mp3"
      [] e = ".OGG" -> ".ogg"
      [] e = ".AVI" -> ".avi"
      [] OTHER -> e

\* transcribe_file(file_path, max_retries=3, retry_delay=5)
max_retries == 3

retry_delay == 5

\* ------------------------------------------ module-level provider selection
\* the .env files the script is started with: the provider name as written
\* and which API key is set, if any
Envs ==
    {e \in [name : {"groq", "Mistral", "invalid"},
            GROQ_API_KEY : BOOLEAN,
            MISTRAL_API_KEY : BOOLEAN] :
        ~(e.GROQ_API_KEY /\ e.MISTRAL_API_KEY)}

\* os.getenv("TRANSCRIPTION_PROVIDER", "groq").lower()
TRANSCRIPTION_PROVIDER(e) == Lower(e.name)

selection_fallback(e) ==
    LET name == TRANSCRIPTION_PROVIDER(e) IN
    CASE name = "mistral" -> IF e.MISTRAL_API_KEY THEN "mistral" ELSE "exit"
      [] OTHER -> IF e.GROQ_API_KEY THEN "groq" ELSE "exit"

selection_both_keys(e) ==
    LET name == TRANSCRIPTION_PROVIDER(e) IN
    IF name \in Providers /\ e.GROQ_API_KEY /\ e.MISTRAL_API_KEY
    THEN name ELSE "exit"

\* the if / elif / else at module load and ProviderFactory.create_provider:
\* the provider that is constructed, or "exit" for sys.exit(1)
selection(e) ==
    LET name == TRANSCRIPTION_PROVIDER(e) IN
    CASE name = "groq" -> IF e.GROQ_API_KEY THEN "groq" ELSE "exit"
      [] name = "mistral" -> IF e.MISTRAL_API_KEY THEN "mistral" ELSE "exit"
      [] OTHER -> "exit"

\* ------------------------------------------------- transcribe_file helpers
\* GroqProvider.transcribe: the API answered 200 with a page that starts with
\* <!DOCTYPE html>, "raise Exception(...)"
HtmlError == "Received HTML error page instead of transcription"

\* str(e) of the exceptions provider.transcribe raises
Exceptions ==
    {"Connection timed out", "API error: 520", "Cloudflare tunnel error", HtmlError}

\* the exceptions the transcribe method of provider p can raise: only
\* GroqProvider inspects the text for an HTML page
raises(p) == IF p = "groq" THEN Exceptions ELSE Exceptions \ {HtmlError}

\* what provider.transcribe returned when it did not raise
Text == "text"

Reclassified == "Groq API connection error (Cloudflare 520)"

\* "520" in str(e) or "Cloudflare" in str(e) or "HTML error page" in str(e)
IsCloudflare(e) ==
    e \in {"API error: 520", "Cloudflare tunnel error", HtmlError}

error_msg_any_provider(p, e) == IF IsCloudflare(e) THEN Reclassified ELSE e

\* error_msg of the except block
error_msg(p, e) == IF p = "groq" /\ IsCloudflare(e) THEN Reclassified ELSE e

wait_time_zero_based(a) == retry_delay * a

\* wait_time = retry_delay * (attempt + 1)
wait_time(a) == retry_delay * (a + 1)

MayRetry_one_more(a) == a < max_retries

\* "if attempt < max_retries - 1"
MayRetry(a) == a < max_retries - 1

final_error_first(results) == results[1]

\* the exception the except block that writes the ErrorLog is handling
final_error(results) == results[Len(results)]

\* ------------------------------------------------------------- the state
VARIABLES
    provider,        \* TRANSCRIPTION_PROVIDER of the process
    input,           \* to_transcribe/: set of [stem, ext, size]
    optimized,       \* space_optimized_files/: file name -> [size, src]
    transcriptions,  \* transcriptions/: file name -> [kind, of (whose audio)]
    pc,              \* "idle", "loop", "optimize", "transcribe", "done"
    files,           \* process_files: the list iterdir() returned
    i,               \* process_files: 1-based index of the current file
    stats,           \* process_files: the counters of the run
    optimized_path,  \* process_files: what optimize_file returned
    file_to_transcribe, \* process_files: path handed to transcribe_file
    attempt,         \* transcribe_file: 0-based attempt number
    last_ok,         \* ladder: bitrate and size of the last complete encode
    smallest,        \* ladder: smallest complete encode (0: none)
    errors,          \* ladder: attempts that exited non-zero
    handled,         \* the file the loop body took up last in this run
    cls,             \* the branch the loop body took for it
    found,           \* size of the processed file it met (0: none)
    had_error,       \* whether an ErrorLog of the file was there when taken up
    enc_calls,       \* ladder: bitrates of the subprocess.run calls made
    api_calls,       \* paths of the provider.transcribe calls made for it
    results,         \* what each of these calls returned (Text) or raised (str(e))
    runs,            \* number of runs started
    prev_failed,     \* the failed counter the previous run ended with
                     \* (Unfinished: it did not reach its summary)
    waits,           \* transcribe_file: the time.sleep arguments for the file in hand
    env,             \* .env: TRANSCRIPTION_PROVIDER and which API keys are set
    faults,          \* the str(e) provider.transcribe can raise with this network
    dirs_made,       \* whether the three mkdir of module load were reached
    killed,          \* the file in hand when the process was killed, as taken up
    wl,              \* publicIpWhitelister.py: the state of the script and its host
    img,             \* image_processor.py: the state of one optimize_image call
    doc              \* documents_to_markdown_converter: main.py and its output directory

vars == <<provider, input, optimized, transcriptions, pc, files, i, stats,
          optimized_path, file_to_transcribe, attempt, last_ok, smallest,
          errors, handled, cls, found, had_error, enc_calls, api_calls, runs,
          prev_failed, waits, results, env, faults,
          dirs_made, killed, wl, img, doc>>

\* the variables of transcribe.py
tvars == <<provider, input, optimized, transcriptions, pc, files, i, stats,
           optimized_path, file_to_transcribe, attempt, last_ok, smallest,
           errors, handled, cls, found, had_error, enc_calls, api_calls, runs,
           prev_failed, waits, results, env, faults, dirs_made, killed>>

\* what no step of process_files changes
outside == <<env, faults, dirs_made, killed, wl, img, doc>>

NoPath == [dir |-> "none", stem |-> "", ext |-> ""]
Unset == [dir |-> "unset", stem |-> "", ext |-> ""]
NoFile == [stem |-> "", ext |-> "", size |-> 0]
NoEncode == [bitrate |-> 0, size |-> 0]
NoKill == [file |-> NoFile, cls |-> "none", found |-> 0]
Unfinished == -1
WlOff == [pc |-> "off"]
ImgOff == [pc |-> "off"]
DocOff == [pc |-> "off"]
NoEnv == [name |-> "", GROQ_API_KEY |-> FALSE, MISTRAL_API_KEY |-> FALSE]
NoStats == [total |-> 0, skipped |-> 0, optimized |-> 0, transcribed |-> 0, failed |-> 0]

\* --------------------------------------------------------- path helpers
Name(f) == f.stem \o f.ext

SourcePath(f) == [dir |-> "to_transcribe", stem |-> f.stem, ext |-> f.ext]

get_transcription_path(path) == path.stem \o "_transcription.txt"

error_log_path_basename(path) == path.stem \o path.ext \o "_error.log"

\* TRANSCRIPTIONS_DIR / f"{os.path.splitext(file_name)[0]}_error.log"
error_log_path(path) == path.stem \o "_error.log"

get_optimized_file_path(f) ==
    [dir |-> "space_optimized_files",
     stem |-> f.stem \o "_processed",
     ext |-> target_extension(provider)]

transcription_exists_source_only(f) ==
    get_transcription_path(SourcePath(f)) \in DOMAIN transcriptions

transcription_exists_or_error_log(f) ==
    \/ get_transcription_path(SourcePath(f)) \in DOMAIN transcriptions
    \/ get_transcription_path(get_optimized_file_path(f)) \in DOMAIN transcriptions
    \/ error_log_path(SourcePath(f)) \in DOMAIN transcriptions
    \/ error_log_path(get_optimized_file_path(f)) \in DOMAIN transcriptions

transcription_exists_optimized_only(f) ==
    get_transcription_path(get_optimized_file_path(f)) \in DOMAIN transcriptions

transcription_exists(f) ==
    \/ get_transcription_path(SourcePath(f)) \in DOMAIN transcriptions
    \/ get_transcription_path(get_optimized_file_path(f)) \in DOMAIN transcriptions

needs_optimization_ge(f) ==
    \/ f.size >= get_max_file_size_mb(provider)
    \/ Lower(f.ext) \notin get_supported_formats(provider)

needs_optimization_no_lower(f) ==
    \/ f.size > get_max_file_size_mb(provider)
    \/ f.ext \notin get_supported_formats(provider)

needs_optimization(f) ==
    \/ f.size > get_max_file_size_mb(provider)
    \/ Lower(f.ext) \notin get_supported_formats(provider)

target_size_mb == get_max_file_size_mb(provider) - 5

check_processed_file_lt(f) ==
    LET p == get_optimized_file_path(f) IN
    IF Name(p) \notin DOMAIN optimized THEN NoPath
    ELSE IF optimized[Name(p)].size < target_size_mb THEN p
    ELSE NoPath

\* check_processed_file: the path it returns (NoPath for None) ...
check_processed_file(f) ==
    LET p == get_optimized_file_path(f) IN
    IF Name(p) \notin DOMAIN optimized THEN NoPath
    ELSE IF optimized[Name(p)].size <= target_size_mb THEN p
    ELSE NoPath

\* ... and the directory it leaves (os.remove of an oversized file)
check_processed_file_dir(f) ==
    LET p == get_optimized_file_path(f) IN
    IF Name(p) \in DOMAIN optimized /\ optimized[Name(p)].size > target_size_mb
    THEN [n \in DOMAIN optimized \ {Name(p)} |-> optimized[n]]
    ELSE optimized

\* ------------------------------------------------------------------ Init
Perms(S) ==
    {s \in [1..Cardinality(S) -> S] : \A x, y \in 1..Cardinality(S) : s[x] = s[y] => x = y}

Directories == {d \in SUBSET AllFiles : Cardinality(d) <= MaxFiles}

Empty == [n \in {} |-> 0]

\* the input directories and networks a first run starts from: the message
\* of the exception varies from call to call for directories of one file
Universes ==
    {u \in [input : Directories, faults : SUBSET Exceptions \ {{}}] :
        \/ u.faults = {"Connection timed out"}
        \/ u.faults = Exceptions /\ Cardinality(u.input) <= 1}

\* transcribe.py before its first run: nothing loaded, the two output
\* directories empty
BeforeFirstRun ==
    /\ provider = "none"
    /\ dirs_made = FALSE
    /\ killed = NoKill
    /\ waits = <<>>
    /\ results = <<>>
    /\ optimized = Empty
    /\ transcriptions = Empty
    /\ pc = "idle"
    /\ files = <<>>
    /\ i = 0
    /\ stats = NoStats
    /\ optimized_path = Unset
    /\ file_to_transcribe = NoPath
    /\ attempt = 0
    /\ last_ok = NoEncode
    /\ smallest = 0
    /\ errors = 0
    /\ handled = NoFile
    /\ cls = "none"
    /\ found = 0
    /\ had_error = FALSE
    /\ enc_calls = <<>>
    /\ api_calls = <<>>
    /\ runs = 0
    /\ prev_failed = 0

Init ==
    /\ BeforeFirstRun
    /\ env \in Envs
    /\ \E u \in Universes : input = u.input /\ faults = u.faults
    /\ wl = WlOff
    /\ img = ImgOff
    /\ doc = DocOff

\* ------------------------------------------------------------ one run
Bump(field) == [stats EXCEPT ![field] = @ + 1]

Write(dir, name, content) ==
    [n \in DOMAIN dir \cup {name} |-> IF n = name THEN content ELSE dir[n]]

\* module load with a provider name or key that is not accepted: sys.exit(1)
ConfigExit ==
    /\ pc \in {"idle", "exit"}
    /\ runs < MaxRuns
    /\ selection(env) = "exit"
    /\ runs' = runs + 1
    /\ pc' = "exit"
    /\ UNCHANGED <<provider, input, optimized, transcriptions, files, i, stats,
                   optimized_path, file_to_transcribe, attempt, last_ok,
                   smallest, errors, handled, cls, found, had_error, enc_calls,
                   api_calls, results, waits, prev_failed, outside>>

\* module load (provider selection, the three mkdir) and the head of
\* process_files
StartRun ==
    /\ pc \in {"idle", "done", "aborted", "killed"}
    /\ runs < MaxRuns
    /\ selection(env) # "exit"
    /\ provider' = selection(env)
    /\ dirs_made' = TRUE
    /\ runs' = runs + 1
    /\ prev_failed' = IF pc \in {"aborted", "killed"} THEN Unfinished ELSE stats.failed
    /\ waits' = <<>>
    /\ results' = <<>>
    /\ optimized_path' = Unset
    /\ file_to_transcribe' = NoPath
    /\ attempt' = 0
    /\ last_ok' = NoEncode
    /\ smallest' = 0
    /\ errors' = 0
    /\ handled' = NoFile
    /\ cls' = "none"
    /\ found' = 0
    /\ had_error' = FALSE
    /\ enc_calls' = <<>>
    /\ api_calls' = <<>>
    /\ IF input = {}
       THEN /\ files' = <<>>
            /\ i' = 0
            /\ stats' = NoStats
            /\ pc' = "done"
       ELSE /\ files' \in Perms(input)
            /\ i' = 1
            /\ stats' = [NoStats EXCEPT !.total = Cardinality(input)]
            /\ pc' = "loop"
    /\ UNCHANGED <<input, optimized, transcriptions, env, faults, killed, wl, img,
                   doc>>

InLoop == pc = "loop" /\ i <= Len(files)

FoundSize(f) ==
    LET p == get_optimized_file_path(f) IN
    IF Name(p) \in DOMAIN optimized THEN optimized[Name(p)].size ELSE 0

\* an ErrorLog written after the audio of f was handed to the provider, as
\* the source file or as its processed file
ErrorLogExists(f) ==
    \E p \in {SourcePath(f), get_optimized_file_path(f)} :
        /\ error_log_path(p) \in DOMAIN transcriptions
        /\ transcriptions[error_log_path(p)].of = Name(f)

\* the loop body takes up files[i] and goes down the branch c
TakeUp(c) ==
    /\ handled' = files[i]
    /\ cls' = c
    /\ found' = FoundSize(files[i])
    /\ had_error' = ErrorLogExists(files[i])
    /\ optimized_path' = Unset
    /\ last_ok' = NoEncode
    /\ smallest' = 0
    /\ errors' = 0
    /\ enc_calls' = <<>>
    /\ api_calls' = <<>>
    /\ waits' = <<>>
    /\ results' = <<>>

\* process_files: "Transcription already exists", continue
SkipTranscribed ==
    /\ InLoop
    /\ transcription_exists(files[i])
    /\ TakeUp("transcribed")
    /\ stats' = Bump("skipped")
    /\ i' = i + 1
    /\ UNCHANGED <<provider, input, optimized, transcriptions, pc, files,
                   file_to_transcribe, attempt, runs, prev_failed, outside>>

\* process_files: "Using existing processed file"
UseExisting ==
    /\ InLoop
    /\ ~transcription_exists(files[i])
    /\ check_processed_file(files[i]) # NoPath
    /\ TakeUp("existing")
    /\ file_to_transcribe' = check_processed_file(files[i])
    /\ attempt' = 0
    /\ pc' = "transcribe"
    /\ UNCHANGED <<provider, input, optimized, transcriptions, files, i, stats,
                   runs, prev_failed, outside>>

\* process_files: "File needs optimization", entering optimize_file
StartOptimize ==
    /\ InLoop
    /\ ~transcription_exists(files[i])
    /\ check_processed_file(files[i]) = NoPath
    /\ needs_optimization(files[i])
    /\ TakeUp("needs_optimization")
    /\ optimized' = check_processed_file_dir(files[i])
    /\ pc' = "optimize"
    /\ UNCHANGED <<provider, input, transcriptions, files, i, stats,
                   file_to_transcribe, attempt, runs, prev_failed, outside>>

\* process_files: "File doesn't need optimization"
Ready ==
    /\ InLoop
    /\ ~transcription_exists(files[i])
    /\ check_processed_file(files[i]) = NoPath
    /\ ~needs_optimization(files[i])
    /\ TakeUp("ready")
    /\ optimized' = check_processed_file_dir(files[i])
    /\ file_to_transcribe' = SourcePath(files[i])
    /\ attempt' = 0
    /\ pc' = "transcribe"
    /\ UNCHANGED <<provider, input, transcriptions, files, i, stats, runs,
                   prev_failed, outside>>

\* ---------------------------------------------------------- optimize_file
\* last_ok, smallest, errors and enc_calls describe the ladder of the file
\* in hand; they are kept after optimize_file returned and dropped when
\* transcribe_file makes its first provider call (api_calls # <<>>).
\* ffmpeg encodes at a constant bitrate: a complete encode of one input at a
\* lower bitrate is never larger than one at a higher bitrate, and a file
\* left behind by a failed encode is a truncation of the complete one.
SizeBound(b) ==
    {s \in OptSizes :
        \/ last_ok = NoEncode
        \/ /\ b < last_ok.bitrate => s <= last_ok.size
           /\ b > last_ok.bitrate => s >= last_ok.size}

Rung == Len(enc_calls) + 1

LastRung == Rung = Len(bitrate_ladder(provider))

Bitrate == bitrate_ladder(provider)[Rung]

OutputName == Name(get_optimized_file_path(files[i]))

Qualifies_strict(s) == s < target_size_mb

\* optimize_file: "if file_size <= target_size_mb"
Qualifies(s) == s <= target_size_mb

BestEffort_none(dir, name) == FALSE

\* optimize_file: "if os.path.exists(output_file)" after the ladder
BestEffort(dir, name) == name \in DOMAIN dir

\* process_files after optimize_file returned a path
OptimizeReturned ==
    /\ optimized_path' = get_optimized_file_path(files[i])
    /\ file_to_transcribe' = get_optimized_file_path(files[i])
    /\ stats' = Bump("optimized")
    /\ attempt' = 0
    /\ pc' = "transcribe"
    /\ UNCHANGED i

OptimizeFailed_uncounted ==
    /\ optimized_path' = NoPath
    /\ i' = i + 1
    /\ pc' = "loop"
    /\ UNCHANGED <<stats, file_to_transcribe, attempt>>

\* process_files after optimize_file returned None
OptimizeFailed ==
    /\ optimized_path' = NoPath
    /\ stats' = Bump("failed")
    /\ i' = i + 1
    /\ pc' = "loop"
    /\ UNCHANGED <<file_to_transcribe, attempt>>

StayInLadder ==
    UNCHANGED <<optimized_path, file_to_transcribe, stats, attempt, pc, i>>

AfterLadder_always_returns(dir) == OptimizeReturned

\* optimize_file once the for loop is over
AfterLadder(dir) ==
    IF BestEffort(dir, OutputName) THEN OptimizeReturned ELSE OptimizeFailed

\* one rung: ffmpeg exits 0 and leaves an output of s MB
EncodeOk ==
    /\ pc = "optimize"
    /\ \E s \in SizeBound(Bitrate) :
        /\ optimized' = Write(optimized, OutputName,
                              [size |-> s, src |-> Name(files[i])])
        /\ last_ok' = [bitrate |-> Bitrate, size |-> s]
        /\ smallest' = IF smallest = 0 \/ s < smallest THEN s ELSE smallest
        /\ IF Qualifies(s)
           THEN OptimizeReturned
           ELSE IF ~LastRung THEN StayInLadder ELSE AfterLadder(optimized')
    /\ enc_calls' = Append(enc_calls, Bitrate)
    /\ UNCHANGED <<provider, input, transcriptions, files, errors, handled,
                   cls, found, had_error, api_calls, results, waits, runs,
                   prev_failed, outside>>

except_CalledProcessError_fatal(dir) == OptimizeFailed

\* optimize_file: "except subprocess.CalledProcessError as e:" prints the
\* error and falls through to the next iteration of the for loop
except_CalledProcessError(dir) ==
    IF ~LastRung THEN StayInLadder ELSE AfterLadder(dir)

\* one rung: ffmpeg exits non-zero (CalledProcessError), leaving the output
\* path as it was (s = 0) or holding a truncated file of s MB
EncodeError ==
    /\ pc = "optimize"
    /\ \E s \in SizeBound(Bitrate) \cup {0} :
        /\ optimized' = IF s = 0 THEN optimized
                        ELSE Write(optimized, OutputName,
                                   [size |-> s, src |-> Name(files[i])])
        /\ except_CalledProcessError(optimized')
    /\ errors' = errors + 1
    /\ enc_calls' = Append(enc_calls, Bitrate)
    /\ UNCHANGED <<provider, input, transcriptions, files, last_ok, smallest,
                   handled, cls, found, had_error, api_calls, results, waits,
                   runs, prev_failed, outside>>

\* the first rung: subprocess.run raises an exception that is not a
\* CalledProcessError (ffmpeg cannot be started: FileNotFoundError,
\* PermissionError); no except clause of optimize_file or process_files
\* catches it and the process ends with a traceback
EncodeLaunchError ==
    /\ pc = "optimize"
    /\ enc_calls = <<>>
    /\ pc' = "aborted"
    /\ enc_calls' = Append(enc_calls, Bitrate)
    /\ UNCHANGED <<provider, input, optimized, transcriptions, files, i, stats,
                   optimized_path, file_to_transcribe, attempt, last_ok,
                   smallest, errors, handled, cls, found, had_error, api_calls,
                   results, waits, runs, prev_failed, outside>>

\* -------------------------------------------------------- transcribe_file
\* whose audio a file holds
Audio(path) ==
    IF path.dir = "to_transcribe" THEN Name(path) ELSE optimized[Name(path)].src

LadderForgotten ==
    /\ last_ok' = NoEncode
    /\ smallest' = 0
    /\ errors' = 0
    /\ enc_calls' = <<>>

\* transcribe_file returned: on to the next file of the loop
NextFile ==
    /\ i' = i + 1
    /\ pc' = "loop"
    /\ file_to_transcribe' = NoPath
    /\ attempt' = 0

save_transcription_clearing(dir, path) ==
    LET d == Write(dir, get_transcription_path(path),
                   [kind |-> "transcript", of |-> Audio(path)])
    IN [n \in DOMAIN d \ {error_log_path(path)} |-> d[n]]

\* transcribe_file: "with open(transcription_path, 'w') as f:
\* f.write(transcription)", the only file a successful attempt touches
save_transcription(dir, path) ==
    Write(dir, get_transcription_path(path),
          [kind |-> "transcript", of |-> Audio(path)])

\* provider.transcribe returned text: the Transcript is written
TranscribeOk ==
    /\ pc = "transcribe"
    /\ api_calls' = Append(api_calls, file_to_transcribe)
    /\ results' = Append(results, Text)
    /\ transcriptions' = save_transcription(transcriptions, file_to_transcribe)
    /\ stats' = Bump("transcribed")
    /\ NextFile
    /\ LadderForgotten
    /\ UNCHANGED <<provider, input, optimized, files, optimized_path, handled,
                   cls, found, had_error, waits, runs, prev_failed, outside>>

\* the four lines transcribe_file writes to the ErrorLog (time.strftime is
\* read off a clock that ticks once per run); "of" is whose audio was sent
ErrorLog(e) ==
    [kind |-> "errorlog",
     of |-> Audio(file_to_transcribe),
     msg |-> error_msg(provider, e),
     time |-> runs,
     file |-> file_to_transcribe,
     provider |-> provider]

\* what transcribe_file printed for each attempt made for the file in hand:
\* "Error transcribing file: {error_msg}" or, after the last try, "Error
\* transcribing file after 3 attempts: {error_msg}"; "saved" for a success
diagnostics ==
    [k \in 1..Len(results) |->
        IF results[k] = Text THEN "saved" ELSE error_msg(provider, results[k])]

\* provider.transcribe raised: sleep and retry, or write the ErrorLog after
\* the last try
TranscribeError ==
    /\ pc = "transcribe"
    /\ api_calls' = Append(api_calls, file_to_transcribe)
    /\ \E e \in faults \cap raises(provider) : results' = Append(results, e)
    /\ IF MayRetry(attempt)
       THEN /\ waits' = Append(waits, wait_time(attempt))
            /\ attempt' = attempt + 1
            /\ UNCHANGED <<transcriptions, stats, i, pc, file_to_transcribe>>
       ELSE /\ transcriptions' = Write(transcriptions, error_log_path(file_to_transcribe),
                                       ErrorLog(final_error(results')))
            /\ stats' = Bump("failed")
            /\ NextFile
            /\ UNCHANGED waits
    /\ LadderForgotten
    /\ UNCHANGED <<provider, input, optimized, files, optimized_path, handled,
                   cls, found, had_error, runs, prev_failed, outside>>

\* process_files: the loop is over, the summary is printed
Summary ==
    /\ pc = "loop"
    /\ i > Len(files)
    /\ pc' = "done"
    /\ UNCHANGED <<provider, input, optimized, transcriptions, files, i, stats,
                   optimized_path, file_to_transcribe, attempt, last_ok,
                   smallest, errors, handled, cls, found, had_error, enc_calls,
                   api_calls, results, waits, runs, prev_failed, outside>>

Next ==
    \/ ConfigExit
    \/ StartRun
    \/ SkipTranscribed
    \/ UseExisting
    \/ StartOptimize
    \/ Ready
    \/ EncodeOk
    \/ EncodeError
    \/ EncodeLaunchError
    \/ TranscribeOk
    \/ TranscribeError
    \/ Summary

Spec == Init /\ [][Next]_vars

\* ------------------------------------------------- a run that is killed
\* the process is terminated (SIGKILL, power loss) while a file is in hand:
\* during an ffmpeg call, which may leave a truncated output file; during a
\* provider call or a sleep, which leaves nothing; or between open(..., "w")
\* of the Transcript and the end of the write, which leaves a partial one
Interrupt ==
    /\ pc \in {"optimize", "transcribe"}
    /\ killed = NoKill
    /\ killed' = [file |-> handled, cls |-> cls, found |-> found]
    /\ pc' = "killed"
    /\ IF pc = "optimize"
       THEN /\ \E s \in SizeBound(Bitrate) \cup {0} :
                  optimized' = IF s = 0 THEN optimized
                               ELSE Write(optimized, OutputName,
                                          [size |-> s, src |-> Name(files[i])])
            /\ UNCHANGED transcriptions
       ELSE /\ \/ UNCHANGED transcriptions
               \/ transcriptions' =
                     Write(transcriptions, get_transcription_path(file_to_transcribe),
                           [kind |-> "transcript", of |-> Audio(file_to_transcribe)])
            /\ UNCHANGED optimized
    /\ UNCHANGED <<provider, input, files, i, stats, optimized_path,
                   file_to_transcribe, attempt, last_ok, smallest, errors,
                   handled, cls, found, had_error, enc_calls, api_calls,
                   results, waits, runs, prev_failed, env, faults, dirs_made,
                   wl, img, doc>>

NextInterrupt == Next \/ Interrupt

SpecInterrupt == Init /\ [][NextInterrupt]_vars

TypeOK ==
    /\ provider \in Providers \cup {"none"}
    /\ env \in Envs
    /\ input \in Directories
    /\ pc \in {"idle", "exit", "loop", "optimize", "transcribe", "done", "aborted", "killed"}
    /\ Len(results) = Len(api_calls)
    /\ Len(waits) <= max_retries - 1
    /\ runs \in 0..MaxRuns
    /\ attempt \in 0..(max_retries - 1)
    /\ Len(enc_calls) <= 4
    /\ Len(api_calls) <= max_retries
    /\ smallest \in OptSizes \cup {0}
    /\ stats.skipped + stats.transcribed + stats.failed <= stats.total

\* ================================================ publicIpWhitelister.py
\* wl is the script and its host: cfg the environment variables, cache the
\* content of CURRENT_IP_FILE_PATH ("missing": no such file), container the
\* IP in the whitelist file inside the container ("": none written),
\* current_ip and last_known_ip the two module-level variables, log the
\* external effects of the run so far, in order.
IPs == {"ip1", "ip2"}

WlConfigs ==
    [DDNS_HOSTNAME : BOOLEAN,
     CROWDSEC_CONTAINER_NAME : BOOLEAN,
     RESTART_CONTAINER : BOOLEAN,
     HEALTHCHECKS_URL : BOOLEAN]

\* file.read().strip()
Strip(c) == IF c = "ip1\n" THEN "ip1" ELSE c

\* before the first run of the model: no cache file, an empty one, or one
\* that earlier runs left together with the whitelist they had written.
\* last_written is the IP of the last docker exec that succeeded, failed_ip
\* the IP of a docker exec that failed since, cache_behind whether a
\* write_to_file failed since the cache file was last written, restart how
\* the docker restart of this run ended
WlInits ==
    {w \in [pc : {"idle"},
            cfg : WlConfigs,
            cache : {"missing", "", "ip1\n"},
            container : {"", "ip1"},
            last_written : {"none", "ip1"},
            failed_ip : {"none"},
            cache_behind : {FALSE},
            restart : {"none"},
            current_ip : {"unset"},
            last_known_ip : {"unset"},
            script_successful : {TRUE},
            log : {<<>>},
            runs : {0},
            exit : {0}] :
        /\ w.cache = "ip1\n" <=> w.container = "ip1"
        /\ w.container = "ip1" <=> w.last_written = "ip1"}

InitWhitelister ==
    /\ BeforeFirstRun
    /\ env = NoEnv
    /\ input = {}
    /\ faults = {}
    /\ wl \in WlInits
    /\ img = ImgOff
    /\ doc = DocOff

\* requests.get of the heartbeat URL, made only when HEALTHCHECKS_URL is set
Pinged(log, status) ==
    IF wl.cfg.HEALTHCHECKS_URL THEN Append(log, "ping_" \o status) ELSE log

WlFail_silent(log) == [pc |-> "exited", exit |-> 1, log |-> log]

\* ping_healthchecks(HEALTHCHECKS_URL, "fail") followed by sys.exit(1)
WlFail(log) == [pc |-> "exited", exit |-> 1, log |-> Pinged(log, "fail")]

WlSet(r) == [f \in DOMAIN wl |-> IF f \in DOMAIN r THEN r[f] ELSE wl[f]]

\* start of the script: the two environment checks
WlValidate ==
    /\ wl.pc \in {"idle", "exited"}
    /\ wl.runs < MaxRuns
    /\ LET fresh == [runs |-> wl.runs + 1, current_ip |-> "unset",
                     last_known_ip |-> "unset", script_successful |-> TRUE,
                     restart |-> "none", exit |-> 0]
       IN  IF wl.cfg.DDNS_HOSTNAME /\ wl.cfg.CROWDSEC_CONTAINER_NAME
           THEN wl' = WlSet(fresh @@ [pc |-> "resolve", log |-> <<>>])
           ELSE wl' = WlSet(fresh @@ WlFail(<<>>))
    /\ UNCHANGED <<tvars, img, doc>>

\* current_ip = get_ip_from_ddns(DDNS_HOSTNAME)
WlResolve ==
    /\ wl.pc = "resolve"
    /\ LET log == Append(wl.log, "resolve") IN
       \/ \E ip \in IPs :
            wl' = WlSet([pc |-> "read_cache", current_ip |-> ip, log |-> log])
       \/ wl' = WlSet(WlFail(log))
    /\ UNCHANGED <<tvars, img, doc>>

\* last_known_ip = read_from_file(CURRENT_IP_FILE_PATH)
WlReadCache ==
    /\ wl.pc = "read_cache"
    /\ LET log == Append(wl.log, "read_cache") IN
       \/ /\ wl.cache = "missing"
          /\ wl' = WlSet([pc |-> "compare", cache |-> "", last_known_ip |-> "",
                          log |-> log])
       \/ /\ wl.cache # "missing"
          /\ wl' = WlSet([pc |-> "compare", last_known_ip |-> Strip(wl.cache),
                          log |-> log])
       \/ wl' = WlSet(WlFail(log))
    /\ UNCHANGED <<tvars, img, doc>>

Changed_always(last, current) == TRUE

\* "if last_known_ip != current_ip"
Changed(last, current) == last # current

WlCompare ==
    /\ wl.pc = "compare"
    /\ wl' = WlSet([pc |-> IF Changed(wl.last_known_ip, wl.current_ip)
                           THEN "update" ELSE "ping",
                    log |-> Append(wl.log, "compare")])
    /\ UNCHANGED <<tvars, img, doc>>

WlUpdateContainer_ignoring_failure ==
    /\ wl.pc = "update"
    /\ LET log == Append(wl.log, "docker_exec") IN
       \/ wl' = WlSet([pc |-> "write_cache", container |-> wl.current_ip,
                       last_written |-> wl.current_ip, failed_ip |-> "none",
                       log |-> log])
       \/ \E c \in {wl.container, ""} :
            wl' = WlSet([pc |-> "write_cache", container |-> c,
                         failed_ip |-> wl.current_ip, log |-> log])
    /\ UNCHANGED <<tvars, img, doc>>

\* update_whitelist_in_container: docker exec ... sh -c 'cat > file'; when
\* it fails the file in the container is as before or was truncated
WlUpdateContainer ==
    /\ wl.pc = "update"
    /\ LET log == Append(wl.log, "docker_exec") IN
       \/ wl' = WlSet([pc |-> "write_cache", container |-> wl.current_ip,
                       last_written |-> wl.current_ip, failed_ip |-> "none",
                       log |-> log])
       \/ \E c \in {wl.container, ""} :
            wl' = WlSet(WlFail(log) @@ [container |-> c,
                                        failed_ip |-> wl.current_ip,
                                        script_successful |-> FALSE])
    /\ UNCHANGED <<tvars, img, doc>>

\* write_to_file(CURRENT_IP_FILE_PATH, current_ip); when it fails the file
\* is as before or was truncated by open(filename, 'w')
WlWriteCache ==
    /\ wl.pc = "write_cache"
    /\ LET log == Append(wl.log, "write_cache") IN
       \/ wl' = WlSet([pc |-> "apply", cache |-> wl.current_ip,
                       cache_behind |-> FALSE, log |-> log])
       \/ \E c \in {wl.cache, ""} :
            wl' = WlSet(WlFail(log) @@ [cache |-> c, cache_behind |-> TRUE,
                                        script_successful |-> FALSE])
    /\ UNCHANGED <<tvars, img, doc>>

\* apply_crowdsec_changes: docker restart when RESTART_CONTAINER is true; a
\* failed restart is a warning only
WlApply ==
    /\ wl.pc = "apply"
    /\ IF wl.cfg.RESTART_CONTAINER
       THEN \E r \in {"ok", "failed"} :
              wl' = WlSet([pc |-> "ping", restart |-> r,
                           log |-> Append(wl.log, "restart")])
       ELSE wl' = WlSet([pc |-> "ping"])
    /\ UNCHANGED <<tvars, img, doc>>

\* "if script_successful: ping_healthchecks(HEALTHCHECKS_URL, "success")"
WlPing ==
    /\ wl.pc = "ping"
    /\ wl' = WlSet([pc |-> "exited", exit |-> 0,
                    log |-> IF wl.script_successful
                            THEN Pinged(wl.log, "success") ELSE wl.log])
    /\ UNCHANGED <<tvars, img, doc>>

NextWhitelister ==
    \/ WlValidate
    \/ WlResolve
    \/ WlReadCache
    \/ WlCompare
    \/ WlUpdateContainer
    \/ WlWriteCache
    \/ WlApply
    \/ WlPing

SpecWhitelister == InitWhitelister /\ [][NextWhitelister]_vars

\* ====================================================== image_processor.py
\* img is one call of optimize_image: the size of the image at input_path,
\* the parameters diagonal_threshold and max_dimension, and what img.save
\* was given (quality, and the size after img.thumbnail)
MaxSide == 6

\* math.sqrt(n), up to its fractional part: the largest d with d * d <= n
isqrt(n) == CHOOSE d \in 0..n : d * d <= n /\ n < (d + 1) * (d + 1)

\* calculate_diagonal(width, height)
calculate_diagonal(width, height) == isqrt(width * width + height * height)

quality_le(diagonal, diagonal_threshold) ==
    IF diagonal <= diagonal_threshold THEN 95 ELSE 80

\* "quality = 95 if diagonal < diagonal_threshold else 80"
quality(diagonal, diagonal_threshold) ==
    IF diagonal < diagonal_threshold THEN 95 ELSE 80

\* img.thumbnail((max_dimension, max_dimension)): never enlarges, keeps the
\* aspect ratio, no side under one pixel
thumbnail(width, height, max_dimension) ==
    IF width <= max_dimension /\ height <= max_dimension
    THEN <<width, height>>
    ELSE IF width >= height
    THEN <<max_dimension, IF (height * max_dimension) \div width = 0 THEN 1
                          ELSE (height * max_dimension) \div width>>
    ELSE <<IF (width * max_dimension) \div height = 0 THEN 1
           ELSE (width * max_dimension) \div height, max_dimension>>

ImgInits ==
    [pc : {"called"},
     width : 1..MaxSide,
     height : 1..MaxSide,
     diagonal_threshold : 0..(MaxSide + 2),
     max_dimension : {3},
     quality : {0},
     saved : {<<0, 0>>}]

InitImage ==
    /\ BeforeFirstRun
    /\ env = NoEnv
    /\ input = {}
    /\ faults = {}
    /\ wl = WlOff
    /\ img \in ImgInits
    /\ doc = DocOff

\* optimize_image: the image is opened, resized and saved; returns True
OptimizeImage ==
    /\ img.pc = "called"
    /\ img' = [img EXCEPT
                 !.pc = "saved",
                 !.quality = quality(calculate_diagonal(img.width, img.height),
                                     img.diagonal_threshold),
                 !.saved = thumbnail(img.width, img.height, img.max_dimension)]
    /\ UNCHANGED <<tvars, wl, doc>>

\* optimize_image: Image.open or img.save raises; returns False
OptimizeImageError ==
    /\ img.pc = "called"
    /\ img' = [img EXCEPT !.pc = "failed"]
    /\ UNCHANGED <<tvars, wl, doc>>

NextImage == OptimizeImage \/ OptimizeImageError

SpecImage == InitImage /\ [][NextImage]_vars

\* ========================================= documents_to_markdown_converter
\* doc is main.py over an input directory and the output directory that
\* persists from run to run.  An output file is named by its path under the
\* output directory; a source file is a record [stem, ext, size] with the
\* size in bytes.
DocFiles ==
    {[stem |-> "a", ext |-> ".pdf", size |-> 1],
     [stem |-> "a", ext |-> ".png", size |-> 1],
     [stem |-> "b", ext |-> ".docx", size |-> 1],
     [stem |-> "e", ext |-> ".pdf", size |-> 0]}

\* <output_dir>/<stem>/<stem>.md
md_path(f) == f.stem \o "/" \o f.stem \o ".md"

\* <output_dir>/<stem>/<stem>_response.json
json_path(f) == f.stem \o "/" \o f.stem \o "_response.json"

\* <output_dir>/<stem>/<stem>_error
error_path(f) == f.stem \o "/" \o f.stem \o "_error"

is_already_transcribed(out, f) == md_path(f) \in out

has_json_response(out, f) == json_path(f) \in out

has_error(out, f) == error_path(f) \in out

get_file_status_json_first(out, f) ==
    IF is_already_transcribed(out, f) THEN "transcribed"
    ELSE IF has_json_response(out, f) THEN "json_ready"
    ELSE IF has_error(out, f) THEN "error"
    ELSE "needs_processing"

get_file_status(out, f) ==
    IF is_already_transcribed(out, f) THEN "transcribed"
    ELSE IF has_error(out, f) THEN "error"
    ELSE IF has_json_response(out, f) THEN "json_ready"
    ELSE "needs_processing"

\* the command line (--batch, --auto) and whether load_config finds a key
DocConfigs == [batch : BOOLEAN, auto : BOOLEAN, MISTRAL_API_KEY : BOOLEAN]

\* before the first run: an empty output directory.  status is what main's
\* get_file_status returned for each file; converted the files main handed
\* to process_json_file and kept_json those whose JSON os.remove could not
\* delete; uploads the files sent with client.files.upload(purpose="ocr");
\* uploaded_files the dict of create_batch_file; deletes the files a
\* client.files.delete was attempted for; returned how process_batch_files
\* returned
DocInits ==
    [pc : {"idle"},
     cfg : DocConfigs,
     input : {d \in SUBSET DocFiles : Cardinality(d) <= MaxFiles},
     out : {{}},
     runs : {0},
     status : {Empty},
     files_to_process : {{}},
     json_ready_files : {{}},
     use_batch : {FALSE},
     converted : {{}},
     kept_json : {{}},
     uploads : {{}},
     uploaded_files : {{}},
     deletes : {{}},
     returned : {"none"}]

InitConverter ==
    /\ BeforeFirstRun
    /\ env = NoEnv
    /\ input = {}
    /\ faults = {}
    /\ wl = WlOff
    /\ img = ImgOff
    /\ doc \in DocInits

DocSet(r) == [f \in DOMAIN doc |-> IF f \in DOMAIN r THEN r[f] ELSE doc[f]]

\* main up to the classification of the supported files
DocMain ==
    /\ doc.pc \in {"idle", "done"}
    /\ doc.runs < MaxRuns
    /\ LET status == [f \in doc.input |-> get_file_status(doc.out, f)]
           todo == {f \in doc.input : status[f] = "needs_processing"}
           ready == {f \in doc.input : status[f] = "json_ready"}
           fresh == [runs |-> doc.runs + 1, converted |-> {}, kept_json |-> {},
                     uploads |-> {}, uploaded_files |-> {}, deletes |-> {},
                     returned |-> "none"]
       IN  IF ~doc.cfg.MISTRAL_API_KEY \/ doc.input = {}
           THEN doc' = DocSet(fresh @@ [pc |-> "done", status |-> Empty,
                                        files_to_process |-> {},
                                        json_ready_files |-> {},
                                        use_batch |-> doc.cfg.batch])
           ELSE doc' = DocSet(fresh @@
                    [pc |-> "json", status |-> status,
                     files_to_process |-> todo,
                     json_ready_files |-> ready,
                     use_batch |-> doc.cfg.batch \/
                                   (doc.cfg.auto /\ Cardinality(todo) > 1)])
    /\ UNCHANGED <<tvars, wl, img>>

\* main: process_json_file for one json_ready file.  The conversion writes
\* the markdown and removes the JSON (a failed os.remove is a warning only);
\* any exception, a JSON file that is no longer there included, writes the
\* error marker
DocJson ==
    /\ doc.pc = "json"
    /\ \E f \in doc.json_ready_files :
         LET next == [json_ready_files |-> doc.json_ready_files \ {f},
                      converted |-> doc.converted \cup {f}]
         IN \/ /\ has_json_response(doc.out, f)
               /\ doc' = DocSet(next @@
                      [out |-> (doc.out \cup {md_path(f)}) \ {json_path(f)}])
            \/ /\ has_json_response(doc.out, f)
               /\ doc' = DocSet(next @@
                      [out |-> doc.out \cup {md_path(f)},
                       kept_json |-> doc.kept_json \cup {f.stem}])
            \/ doc' = DocSet(next @@ [out |-> doc.out \cup {error_path(f)}])
    /\ UNCHANGED <<tvars, wl, img>>

\* main: "if use_batch and files_to_process: ... elif files_to_process: ...
\* else: No files need processing"
DocDispatch ==
    /\ doc.pc = "json"
    /\ doc.json_ready_files = {}
    /\ doc' = DocSet([pc |-> IF doc.files_to_process = {} THEN "done"
                             ELSE IF doc.use_batch THEN "batch" ELSE "single"])
    /\ UNCHANGED <<tvars, wl, img>>

\* main: process_single_file for one file: the upload raises, or a later
\* call raises after the upload, or the markdown is written
DocSingle ==
    /\ doc.pc = "single"
    /\ \E f \in doc.files_to_process :
         LET left == doc.files_to_process \ {f}
             next == [files_to_process |-> left,
                      pc |-> IF left = {} THEN "done" ELSE "single"]
         IN \/ doc' = DocSet(next)
            \/ doc' = DocSet(next @@ [uploads |-> doc.uploads \cup {f}])
            \/ doc' = DocSet(next @@ [uploads |-> doc.uploads \cup {f},
                                      out |-> doc.out \cup {md_path(f)}])
    /\ UNCHANGED <<tvars, wl, img>>

\* process_batch_files up to "if not uploaded_files", with create_batch_file:
\* empty files are skipped and an upload that raises is skipped
DocCreateBatch ==
    /\ doc.pc = "batch"
    /\ LET to_process == {f \in doc.files_to_process :
                             get_file_status(doc.out, f) = "needs_processing"}
       IN  IF to_process = {}
           THEN doc' = DocSet([pc |-> "done", returned |-> "nothing_to_process"])
           ELSE \E uploaded \in SUBSET {f \in to_process : f.size # 0} :
                  doc' = DocSet([uploads |-> uploaded,
                                 uploaded_files |-> uploaded,
                                 pc |-> IF uploaded = {} THEN "done" ELSE "job",
                                 returned |-> IF uploaded = {} THEN "no_uploads"
                                              ELSE "none"])
    /\ UNCHANGED <<tvars, wl, img>>

\* process_batch_files: the batch job has ended, with an output file or
\* without one ("Cleaning up uploaded files...", return 0)
DocJob ==
    /\ doc.pc = "job"
    /\ \/ doc' = DocSet([pc |-> "download"])
       \/ doc' = DocSet([pc |-> "done", deletes |-> doc.uploaded_files,
                         returned |-> "no_output"])
    /\ UNCHANGED <<tvars, wl, img>>

\* process_batch_files: the try block around client.files.download
DocDownload ==
    /\ doc.pc = "download"
    /\ \/ doc' = DocSet([pc |-> "results"])
       \/ doc' = DocSet([pc |-> "done", returned |-> "download_failed"])
    /\ UNCHANGED <<tvars, wl, img>>

\* process_batch_files: the loop over the result lines (for each file the
\* markdown, the raw response as JSON, or nothing), the cleanup of the
\* uploaded files and the return
DocResults ==
    /\ doc.pc = "results"
    /\ \E r \in [doc.uploaded_files -> {"md", "json", "none"}] :
         doc' = DocSet(
            [out |-> doc.out
                       \cup {md_path(f) : f \in {g \in doc.uploaded_files : r[g] = "md"}}
                       \cup {json_path(f) : f \in {g \in doc.uploaded_files : r[g] = "json"}},
             deletes |-> doc.uploaded_files,
             returned |-> "processed",
             pc |-> "done"])
    /\ UNCHANGED <<tvars, wl, img>>

NextConverter ==
    \/ DocMain
    \/ DocJson
    \/ DocDispatch
    \/ DocSingle
    \/ DocCreateBatch
    \/ DocJob
    \/ DocDownload
    \/ DocResults

SpecConverter == InitConverter /\ [][NextConverter]_vars

\* ------------------------------------------------------------- the claims
\* a Transcript named from the stem of f or of its processed file
HasTranscript(f) ==
    \/ (f.stem \o "_transcription.txt") \in DOMAIN transcriptions
    \/ (f.stem \o "_processed_transcription.txt") \in DOMAIN transcriptions

\* f is within the provider's upload limit and of a format it accepts
Fits(f) ==
    /\ f.size <= get_max_file_size_mb(provider)
    /\ Lower(f.ext) \in get_supported_formats(provider)

ProcessedName(f) == f.stem \o "_processed.mp3"

NoQualifyingResult == smallest = 0 \/ smallest > target_size_mb

\* optimize_file has returned for the file in hand and no provider call has
\* been made for it yet
LadderLeft ==
    /\ cls = "needs_optimization"
    /\ pc \in {"loop", "transcribe", "done"}
    /\ api_calls = <<>>

C2_ErrorLogIsSkipped ==
    (handled # NoFile /\ had_error /\ ~HasTranscript(handled)) =>
        /\ cls = "transcribed"
        /\ enc_calls = <<>>
        /\ api_calls = <<>>

\* C2 amended: an ErrorLog never makes process_files skip a file; a file
\* that has an ErrorLog is skipped only if it has a Transcript, and otherwise
\* it is taken up again and at least one encoder or provider.transcribe call
\* is made for it.
C2_ErrorLogIsNoGate ==
    (handled # NoFile /\ had_error) =>
        /\ cls = "transcribed" => HasTranscript(handled)
        /\ (cls # "transcribed" /\ pc \in {"loop", "done"}) =>
              Len(enc_calls) + Len(api_calls) >= 1

C2_Witness ==
    /\ runs = 2
    /\ Cardinality(input) = 1
    /\ had_error
    /\ cls = "ready"
    /\ Len(api_calls) >= 1

\* C3: a file is skipped, with no encoder and no provider.transcribe call,
\* exactly when a Transcript named from its stem or from the stem of its
\* processed file exists; every call for a file comes after that check.
C3_TranscriptIsTheGate ==
    handled # NoFile =>
        /\ cls = "transcribed" =>
              (HasTranscript(handled) /\ enc_calls = <<>> /\ api_calls = <<>>)
        /\ (cls # "transcribed" /\ pc \in {"optimize", "transcribe"}) =>
              ~HasTranscript(handled)
        /\ (cls # "transcribed" /\ pc \in {"loop", "done"}) =>
              Len(enc_calls) + Len(api_calls) >= 1

C3_Witness ==
    /\ runs = 2
    /\ prev_failed > 0
    /\ cls = "transcribed"
    /\ HasTranscript(handled)
    /\ pc = "done"
    /\ stats.failed > 0

C5_ReadyFileIsHandedUnchanged ==
    (handled # NoFile /\ Fits(handled) /\ pc = "transcribe") =>
        file_to_transcribe = SourcePath(handled)

\* C6: a file is classified needs_optimization exactly when its size is over
\* the provider's limit or its lower-cased extension is unsupported: a 30 MB
\* file is, a 25 MB file of a supported extension is not, and under groq the
\* ladder 64k, 32k, 16k, 8k is tried until an output is within 20 MB.
C6_NeedsOptimizationExactly ==
    handled # NoFile =>
        /\ needs_optimization(handled) <=> ~Fits(handled)
        /\ cls = "needs_optimization" => ~Fits(handled)
        /\ cls = "ready" => Fits(handled)
        /\ handled.size = 30 => cls # "ready"
        /\ (handled.size = 25 /\ Lower(handled.ext) \in get_supported_formats(provider)) =>
              cls # "needs_optimization"
        /\ (provider = "groq" /\ cls = "needs_optimization") =>
              /\ \A j \in 1..Len(enc_calls) : enc_calls[j] = <<64, 32, 16, 8>>[j]
              /\ pc = "optimize" => (smallest = 0 \/ smallest > 20)

C6_Witness ==
    /\ provider = "groq"
    /\ handled.size = 30
    /\ handled.ext = ".mp3"
    /\ cls = "needs_optimization"
    /\ enc_calls = <<64, 32, 16>>
    /\ smallest = 20
    /\ pc = "transcribe"

\* C7: the encoder is invoked once per bitrate in the order of the provider's
\* ladder, which is strictly descending, and no attempt follows the first
\* complete encode that is within max_upload_size - 5.
C7_LadderOrderAndStop ==
    /\ \A j \in 1..Len(enc_calls) : enc_calls[j] = bitrate_ladder(provider)[j]
    /\ \A j, k \in 1..Len(enc_calls) : j < k => enc_calls[j] > enc_calls[k]
    /\ pc = "optimize" => (NoQualifyingResult /\ Len(enc_calls) < 4)
    /\ ~NoQualifyingResult =>
          /\ enc_calls[Len(enc_calls)] = last_ok.bitrate
          /\ last_ok.size = smallest

C7_Witness ==
    /\ provider = "mistral"
    /\ enc_calls = <<96, 64, 48>>
    /\ errors = 1
    /\ smallest = 20
    /\ pc = "transcribe"

\* C8 as stated: when no ladder attempt gave a result within the margin,
\* optimize_file still returns a file and the file goes on to transcription.
C8_AlwaysReturnsAFile ==
    (LadderLeft /\ NoQualifyingResult) =>
        /\ optimized_path \notin {NoPath, Unset}
        /\ pc = "transcribe"

\* C8 amended: when no ladder attempt gave a result within the margin, every
\* bitrate was tried; if an output file is on disk optimize_file returns it
\* and the file goes on to transcription, and if none is it returns None and
\* the file is counted failed without a provider.transcribe call.
C8_BestEffortIfOutputExists ==
    (LadderLeft /\ NoQualifyingResult) =>
        /\ Len(enc_calls) = 4
        /\ ProcessedName(handled) \in DOMAIN optimized =>
              /\ optimized_path \notin {NoPath, Unset}
              /\ file_to_transcribe = optimized_path
              /\ pc = "transcribe"
        /\ ProcessedName(handled) \notin DOMAIN optimized =>
              /\ optimized_path = NoPath
              /\ pc \in {"loop", "done"}
              /\ stats.failed >= 1

C8_Witness ==
    /\ cls = "needs_optimization"
    /\ Len(enc_calls) = 4
    /\ smallest = 21
    /\ optimized_path \notin {NoPath, Unset}
    /\ pc = "transcribe"
    /\ api_calls = <<>>

\* C9: when every ladder attempt completed and exceeded the margin, the file
\* optimize_file returns is the smallest of the results.
C9_BestEffortIsSmallest ==
    (LadderLeft /\ Len(enc_calls) = 4 /\ errors = 0 /\ smallest > target_size_mb) =>
        /\ pc = "transcribe"
        /\ file_to_transcribe = optimized_path
        /\ optimized[Name(file_to_transcribe)].size = smallest

C9_Witness ==
    /\ cls = "needs_optimization"
    /\ pc = "transcribe"
    /\ Len(enc_calls) = 4
    /\ errors = 0
    /\ smallest = 21
    /\ optimized[Name(file_to_transcribe)].size = 21

\* C10: for a file needing optimization, a processed file found within
\* max_upload_size - 5 is handed to transcription without any encoder call;
\* one found larger is deleted and the ladder runs in the same run.
C10_ExistingProcessedFile ==
    (handled # NoFile /\ ~Fits(handled) /\ cls # "transcribed") =>
        /\ (found > 0 /\ found <= target_size_mb) =>
              /\ cls = "existing"
              /\ enc_calls = <<>>
              /\ pc = "transcribe" =>
                    file_to_transcribe = [dir |-> "space_optimized_files",
                                          stem |-> handled.stem \o "_processed",
                                          ext |-> ".mp3"]
        /\ found > target_size_mb =>
              /\ cls = "needs_optimization"
              /\ (pc = "optimize" /\ enc_calls = <<>>) =>
                    ProcessedName(handled) \notin DOMAIN optimized
              /\ LadderLeft => Len(enc_calls) >= 1
        /\ found = 0 => cls = "needs_optimization"

C10_Witness ==
    /\ ~Fits(handled)
    /\ found > target_size_mb
    /\ cls = "needs_optimization"
    /\ LadderLeft
    /\ Len(enc_calls) >= 1
    /\ ProcessedName(handled) \in DOMAIN optimized
    /\ pc = "transcribe"

\* the other case of C10: a processed file of exactly the target size is reused
C10_WitnessReuse ==
    /\ ~Fits(handled)
    /\ found = 20
    /\ cls = "existing"
    /\ pc = "transcribe"

\* transcribe_file has returned for the file in hand
Returned == pc \in {"loop", "done"} /\ api_calls # <<>>

\* every provider.transcribe call made for the file in hand raised
AllFailed == \A k \in 1..Len(results) : results[k] # Text

\* C11: transcribe_file makes at most 3 provider.transcribe calls for one
\* file, one per attempt, exactly 3 when every call fails, and none after
\* the first call that succeeds.
C11_RetryCeiling ==
    /\ max_retries = 3
    /\ Len(api_calls) <= 3
    /\ \A k \in 1..Len(results) : results[k] = Text => k = Len(results)
    /\ pc = "transcribe" => (attempt = Len(api_calls) /\ AllFailed)
    /\ (Returned /\ AllFailed) => Len(api_calls) = 3
    /\ (Returned /\ Len(api_calls) < 3) => results[Len(results)] = Text

C11_Witness ==
    /\ Returned
    /\ AllFailed
    /\ Len(api_calls) = 3
    /\ cls = "ready"

\* C12: the sleep after failed attempt k (1-based), before attempt k + 1, is
\* retry_delay * k seconds (5, then 10), and there is one sleep after every
\* failed attempt but the last.
C12_LinearBackoff ==
    /\ retry_delay = 5
    /\ \A k \in 1..Len(waits) : waits[k] = 5 * k
    /\ pc = "transcribe" => Len(waits) = Len(api_calls)
    /\ Returned => Len(waits) = Len(api_calls) - 1

C12_Witness ==
    /\ waits = <<5, 10>>
    /\ Returned
    /\ results[3] = Text

\* the message transcribe_file reports for an exception
Reported(e) ==
    IF /\ provider = "groq"
       /\ e \in {"API error: 520", "Cloudflare tunnel error",
                 "Received HTML error page instead of transcription"}
    THEN "Groq API connection error (Cloudflare 520)"
    ELSE e

\* C13: when all 3 provider.transcribe calls for a file fail, the ErrorLog
\* written holds the error message of the third attempt, the time, the path
\* of the file sent and the provider name; no Transcript is created and the
\* file is counted failed.
C13_ErrorLogAfterLastAttempt ==
    (Returned /\ AllFailed) =>
        LET sent == api_calls[Len(api_calls)]
            log == sent.stem \o "_error.log"
        IN  /\ log \in DOMAIN transcriptions
            /\ transcriptions[log].kind = "errorlog"
            /\ transcriptions[log].msg = Reported(results[3])
            /\ transcriptions[log].time = runs
            /\ transcriptions[log].file = sent
            /\ transcriptions[log].provider = provider
            /\ (sent.stem \o "_transcription.txt") \notin DOMAIN transcriptions
            /\ stats.failed >= 1
            /\ stats.total = 1 => (stats.failed = 1 /\ stats.transcribed = 0)

C13_Witness ==
    /\ Returned
    /\ AllFailed
    /\ results = <<"API error: 520", "API error: 520", "Connection timed out">>
    /\ transcriptions[api_calls[3].stem \o "_error.log"].msg = "Connection timed out"
    /\ stats.failed = 1

\* C14: once the provider is constructed, a run is always inside the loop or
\* at its summary: no failure while a file is in hand ends the run early.
C14_NoFailureAbortsTheRun ==
    (runs > 0 /\ provider # "none") =>
        pc \in {"loop", "optimize", "transcribe", "done"}

\* C15: with a provider name other than groq or mistral every run ends at
\* module load: no provider is constructed, no working directory is made,
\* the input directory is not listed and nothing is written.
C15_UnknownProviderTouchesNothing ==
    TRANSCRIPTION_PROVIDER(env) \notin {"groq", "mistral"} =>
        /\ pc \in {"idle", "exit"}
        /\ runs > 0 => pc = "exit"
        /\ provider = "none"
        /\ ~dirs_made
        /\ files = <<>>
        /\ handled = NoFile
        /\ stats = NoStats
        /\ optimized = Empty
        /\ transcriptions = Empty

C15_Witness ==
    /\ env.name = "invalid"
    /\ env.GROQ_API_KEY
    /\ input # {}
    /\ runs = 2
    /\ pc = "exit"
    /\ ~dirs_made

\* C16: groq needs GROQ_API_KEY only and mistral needs MISTRAL_API_KEY only:
\* without the selected provider's key every run ends at module load before
\* any file is taken up; with it the run goes ahead with that provider,
\* whether or not the other key is set.
C16_SelectedProvidersKeyOnly ==
    LET name == TRANSCRIPTION_PROVIDER(env)
        key == IF name = "groq" THEN env.GROQ_API_KEY ELSE env.MISTRAL_API_KEY
    IN  name \in {"groq", "mistral"} =>
            /\ ~key => /\ pc \in {"idle", "exit"}
                       /\ provider = "none"
                       /\ handled = NoFile
                       /\ files = <<>>
            /\ key => /\ pc # "exit"
                      /\ runs > 0 => provider = name

C16_Witness ==
    /\ env.name = "Mistral"
    /\ env.MISTRAL_API_KEY
    /\ ~env.GROQ_API_KEY
    /\ provider = "mistral"
    /\ pc = "done"
    /\ stats.transcribed >= 1

\* C17: a file that was in hand when the process was killed is, when the
\* next run takes it up, classified as it was in the killed run and meets
\* the same processed file (or none) that it met then.
C17_InterruptLeavesFileAsBefore ==
    (killed # NoKill /\ pc # "killed" /\ handled = killed.file) =>
        /\ cls = killed.cls
        /\ found = killed.found

\* C20 as stated: the ErrorLog written when every attempt for a source file
\* failed is named from the stem of the source file, whether the source
\* file or its processed file was sent.
C20_ErrorLogNamedFromSourceStem ==
    (Returned /\ AllFailed) =>
        LET log == handled.stem \o "_error.log"
        IN  /\ log \in DOMAIN transcriptions
            /\ transcriptions[log].file = api_calls[Len(api_calls)]
            /\ transcriptions[log].time = runs

\* C20 amended: the ErrorLog is named from the stem of the file that was
\* sent to the provider: <stem>_error.log when the source file was sent and
\* <stem>_processed_error.log when a processed file was sent.
C20_ErrorLogNamedFromSentFile ==
    (Returned /\ AllFailed) =>
        LET log == IF cls = "ready"
                   THEN handled.stem \o "_error.log"
                   ELSE handled.stem \o "_processed_error.log"
        IN  /\ log \in DOMAIN transcriptions
            /\ transcriptions[log].file = api_calls[Len(api_calls)]
            /\ transcriptions[log].time = runs
            /\ cls = "ready" <=> api_calls[Len(api_calls)].dir = "to_transcribe"

C20_Witness ==
    /\ Returned
    /\ AllFailed
    /\ cls = "needs_optimization"
    /\ (handled.stem \o "_processed_error.log") \in DOMAIN transcriptions
    /\ (handled.stem \o "_error.log") \notin DOMAIN transcriptions

\* the rank of an external effect of the whitelist updater in its order
WlRank(e) ==
    CASE e = "resolve" -> 1
      [] e = "read_cache" -> 2
      [] e = "compare" -> 3
      [] e = "docker_exec" -> 4
      [] e = "write_cache" -> 5
      [] e = "restart" -> 6
      [] OTHER -> 7

Events(log) == {log[k] : k \in 1..Len(log)}

\* C18: the effects of a whitelist updater run come in the order resolve,
\* read and compare the cached IP, write into the container, write the
\* cache, restart, heartbeat; a run that finds the resolved IP equal to the
\* cached one writes nothing into the container, restarts nothing, leaves the
\* cache as it read it and ends with the success heartbeat.
C18_WhitelisterOrder ==
    /\ \A j, k \in 1..Len(wl.log) : j < k => WlRank(wl.log[j]) < WlRank(wl.log[k])
    /\ (wl.pc \in {"ping", "exited"} /\ "compare" \in Events(wl.log)
        /\ wl.last_known_ip = wl.current_ip) =>
          /\ "docker_exec" \notin Events(wl.log)
          /\ "write_cache" \notin Events(wl.log)
          /\ "restart" \notin Events(wl.log)
          /\ Strip(wl.cache) = wl.current_ip
          /\ wl.pc = "exited" =>
                /\ wl.exit = 0
                /\ wl.log = Pinged(<<"resolve", "read_cache", "compare">>, "success")
    /\ (wl.pc = "exited" /\ wl.exit = 0 /\ wl.last_known_ip # wl.current_ip) =>
          wl.log = Pinged(<<"resolve", "read_cache", "compare", "docker_exec",
                            "write_cache">>
                          \o (IF wl.cfg.RESTART_CONTAINER THEN <<"restart">> ELSE <<>>),
                          "success")

C18_Witness ==
    /\ wl.pc = "exited"
    /\ wl.runs = 2
    /\ wl.cfg.RESTART_CONTAINER
    /\ wl.container = "ip2"
    /\ wl.cache = "ip2"
    /\ wl.last_known_ip = "ip2"
    /\ wl.log = <<"resolve", "read_cache", "compare", "ping_success">>

\* C19: optimize_image saves with quality 95 when width^2 + height^2 of the
\* image as opened is below diagonal_threshold^2 and with quality 80
\* otherwise, a diagonal equal to the threshold included; the size after
\* the resize plays no part.
C19_TwoQualityBuckets ==
    img.pc = "saved" =>
        /\ img.quality \in {95, 80}
        /\ img.quality = 95 <=>
              img.width * img.width + img.height * img.height
                  < img.diagonal_threshold * img.diagonal_threshold

C19_Witness ==
    /\ img.pc = "saved"
    /\ img.width = 3
    /\ img.height = 4
    /\ img.diagonal_threshold = 5
    /\ img.quality = 80
    /\ img.saved = <<2, 3>>

\* C21: a successful transcription writes the Transcript and leaves every
\* ErrorLog there is, the one of the same file included, exactly as it was:
\* the step that counts a file as transcribed removes and rewrites no ErrorLog.
C21_SuccessLeavesErrorLog ==
    [][stats'.transcribed = stats.transcribed + 1 =>
          \A n \in DOMAIN transcriptions :
              transcriptions[n].kind = "errorlog" =>
                  /\ n \in DOMAIN transcriptions'
                  /\ transcriptions'[n] = transcriptions[n]]_vars

\* a first run failed on a file and wrote its ErrorLog, the second run
\* succeeded on it: the Transcript and the ErrorLog of the file both exist
C21_Witness ==
    /\ runs = 2
    /\ \E f \in input :
          LET log == error_log_path(SourcePath(f))
              txt == get_transcription_path(SourcePath(f))
          IN /\ log \in DOMAIN transcriptions
             /\ txt \in DOMAIN transcriptions
             /\ transcriptions[log].of = Name(f)
             /\ transcriptions[log].time = 1
             /\ transcriptions[txt].kind = "transcript"
             /\ transcriptions[txt].of = Name(f)

\* C22: under groq a response that is an HTML page is a failed attempt like
\* any other (it is retried while attempts are left), and an error mentioning
\* 520, Cloudflare or the HTML error page is printed and logged as "Groq API
\* connection error (Cloudflare 520)"; under mistral the message printed and
\* logged is always the raw one.
C22_GroqReclassifies ==
    /\ \A k \in 1..Len(results) :
          /\ results[k] # Text => diagnostics[k] = Reported(results[k])
          /\ provider = "mistral" /\ results[k] # Text => diagnostics[k] = results[k]
          /\ (Returned /\ results[k] # Text /\ k < 3) => Len(api_calls) > k
          /\ (pc = "transcribe" /\ k <= 3) => attempt >= k
    /\ (Returned /\ AllFailed) =>
          LET log == api_calls[Len(api_calls)].stem \o "_error.log"
              raw == results[Len(results)]
          IN /\ log \in DOMAIN transcriptions
             /\ transcriptions[log].msg = Reported(raw)
             /\ provider = "mistral" => transcriptions[log].msg = raw

\* groq answered with an HTML page twice and then with text: two retries,
\* both printed as the connectivity message
C22_Witness ==
    /\ provider = "groq"
    /\ Returned
    /\ results = <<"Received HTML error page instead of transcription",
                   "Received HTML error page instead of transcription", "text">>
    /\ diagnostics[1] = "Groq API connection error (Cloudflare 520)"

\* C23: a non-zero encoder exit at one bitrate is a failed attempt only: the
\* run goes on, no counter moves and no path is returned while a lower
\* bitrate is left, the next call is made at the next lower bitrate of the
\* ladder, and optimize_file returns after an error only once the whole
\* ladder has been tried, as it does after an oversized result.
C23_EncoderErrorIsOneFailedAttempt ==
    [][errors' = errors + 1 =>
          LET ladder == bitrate_ladder(provider)
              tried == Len(enc_calls')
          IN /\ pc' \in {"optimize", "transcribe", "loop"}
             /\ tried < Len(ladder) =>
                   /\ pc' = "optimize"
                   /\ stats' = stats
                   /\ i' = i
                   /\ optimized_path' = optimized_path
                   /\ ladder[tried + 1] < enc_calls'[tried]
             /\ pc' # "optimize" => tried = Len(ladder)
             /\ enc_calls' = Append(enc_calls, ladder[Len(enc_calls) + 1])]_vars

\* the encoder failed at the first bitrate and the second bitrate, tried
\* next, gave the file that optimize_file returned
C23_Witness ==
    /\ pc = "transcribe"
    /\ api_calls = <<>>
    /\ errors = 1
    /\ Len(enc_calls) = 2
    /\ last_ok # NoEncode
    /\ last_ok.bitrate = enc_calls[2]
    /\ Qualifies(last_ok.size)

\* the files of this run that process_files is done with
Counted == stats.skipped + stats.transcribed + stats.failed

\* C24: in a run every file taken up adds one to exactly one of skipped,
\* transcribed and failed, so at the summary total = skipped + transcribed +
\* failed; optimized counts the files re-encoded in this run, each of which
\* then ends transcribed or failed, and a reused processed file adds nothing
\* to it.
C24_CountersPartition ==
    /\ pc = "done" =>
          /\ stats.total = Counted
          /\ stats.total = Cardinality(input)
          /\ stats.optimized <= stats.transcribed + stats.failed
    /\ pc = "loop" => (Counted = i - 1 /\ stats.optimized <= Counted)
    /\ pc \in {"optimize", "transcribe"} =>
          /\ Counted = i - 1
          /\ stats.optimized <= Counted + 1
    /\ (pc = "transcribe" /\ cls \in {"existing", "ready"}) => stats.optimized <= Counted
    /\ (stats.total = 1 /\ cls \in {"existing", "ready", "transcribed"}) =>
          stats.optimized = 0

\* a completed run over two files: one failed in optimize_file without being
\* optimized, one was transcribed
C24_Witness ==
    /\ pc = "done"
    /\ stats.total = 2
    /\ stats.failed = 1
    /\ stats.transcribed = 1
    /\ stats.optimized = 0
    /\ cls = "needs_optimization"
    /\ optimized_path = NoPath

\* C25: a file is skipped as already transcribed only if a Transcript of its
\* own audio exists, and a processed file is reused only for the source file
\* it was encoded from, also when two source files share a stem.
C25_SkipAndReuseOnlyOwnOutput ==
    /\ cls = "transcribed" =>
          \E n \in {handled.stem \o "_transcription.txt",
                    handled.stem \o "_processed_transcription.txt"} :
              /\ n \in DOMAIN transcriptions
              /\ transcriptions[n].kind = "transcript"
              /\ transcriptions[n].of = Name(handled)
    /\ (cls = "existing" /\ pc = "transcribe") =>
          /\ ProcessedName(handled) \in DOMAIN optimized
          /\ optimized[ProcessedName(handled)].src = Name(handled)

\* every encoder call made for the file in hand exited non-zero and left
\* nothing at the output path
NothingEncoded ==
    /\ cls = "needs_optimization"
    /\ Len(enc_calls) = Len(bitrate_ladder(provider))
    /\ errors = Len(enc_calls)
    /\ ProcessedName(handled) \notin DOMAIN optimized

CacheFollowsContainer ==
    /\ (wl'.cache # wl.cache /\ wl'.cache \in IPs) =>
          /\ wl.pc = "write_cache"
          /\ wl'.cache = wl.current_ip
          /\ wl.last_written = wl.current_ip
          /\ wl.container = wl.current_ip
    /\ (wl.pc = "update" /\ wl'.pc = "exited") =>
          /\ wl'.cache = wl.cache
          /\ wl'.last_written = wl.last_written
          /\ wl'.exit = 1

Pings(log) == SelectSeq(log, LAMBDA e : e \in {"ping_success", "ping_fail"})

\* the step the run was at when it ended
LastStep(log) ==
    LET steps == SelectSeq(log, LAMBDA e : e \notin {"ping_success", "ping_fail"})
    IN steps[Len(steps)]

\* C28: a run that passed the environment checks with a heartbeat URL set
\* sends no ping before it ends and exactly one when it ends: fail, with
\* exit code 1, when the DNS resolution, the cache read, the docker exec or
\* the cache write failed, success otherwise, also when the docker restart
\* failed.
C28_ExactlyOnePing ==
    (wl.pc # "off" /\ wl.cfg.HEALTHCHECKS_URL /\ wl.log # <<>> /\ wl.log[1] = "resolve") =>
        /\ wl.pc # "exited" => Pings(wl.log) = <<>>
        /\ wl.pc = "exited" =>
              /\ Len(Pings(wl.log)) = 1
              /\ wl.log[Len(wl.log)] = Pings(wl.log)[1]
              /\ wl.exit = 1 <=> Pings(wl.log) = <<"ping_fail">>
              /\ wl.exit = 0 <=> Pings(wl.log) = <<"ping_success">>
              /\ wl.exit = 1 =>
                    LastStep(wl.log) \in {"resolve", "read_cache", "docker_exec", "write_cache"}
              /\ wl.exit = 0 => LastStep(wl.log) \in {"compare", "write_cache", "restart"}
              /\ wl.script_successful <=> wl.exit = 0 \/ LastStep(wl.log) \in {"resolve", "read_cache"}
              /\ wl.restart = "failed" => Pings(wl.log) = <<"ping_success">>

\* the whitelist and the cache were written, the docker restart failed and
\* the run ended with the success ping
C28_Witness ==
    /\ wl.pc = "exited"
    /\ wl.cfg.HEALTHCHECKS_URL
    /\ wl.restart = "failed"
    /\ wl.log = <<"resolve", "read_cache", "compare", "docker_exec",
                  "write_cache", "restart", "ping_success">>

\* the status of f read off the three marker files, in the order
\* transcribed, error, json_ready, needs_processing
StatusByPriority(out, f) ==
    LET md == (f.stem \o "/" \o f.stem \o ".md") \in out
        err == (f.stem \o "/" \o f.stem \o "_error") \in out
        json == (f.stem \o "/" \o f.stem \o "_response.json") \in out
    IN CASE md -> "transcribed"
         [] ~md /\ err -> "error"
         [] ~md /\ ~err /\ json -> "json_ready"
         [] OTHER -> "needs_processing"

\* get_file_status follows the fixed priority, and only files main classified
\* needs_processing are uploaded
StatusAndUploads ==
    /\ \A f \in doc.input : get_file_status(doc.out, f) = StatusByPriority(doc.out, f)
    /\ \A f \in doc.uploads :
          /\ f \in DOMAIN doc.status
          /\ doc.status[f] = "needs_processing"
    /\ \A f \in doc.converted : doc.status[f] = "json_ready"

C30_EveryUploadDeleted ==
    (doc.pc = "done" /\ doc.returned # "none" /\ doc.uploaded_files # {}) =>
        doc.deletes = doc.uploaded_files

====
